---- MODULE Spec2Model ----
(***************************************************************************)
(* Model of the JobScanner backend: the AI matching engine                 *)
(* (backend/src/types/index.ts, class AIMatchingEngine) with its batched,  *)
(* retrying scoring pipeline and its response validator.                   *)
(*                                                                         *)
(* One invocation of matchJobs is modelled as a state machine.  The jobs   *)
(* of the current batch run concurrently (Promise.all over                 *)
(* matchSingleJob); each await of the source is a point where the          *)
(* invocation can be interleaved with its siblings.  analyzedAt            *)
(* (new Date()) is left out of the results: it is wall-clock time.         *)
(***************************************************************************)
EXTENDS Integers, Sequences, FiniteSets, TLC

(***************************************************************************)
(* Bounds of the model.                                                    *)
(***************************************************************************)
MaxJobs == 2
MaxBatchSize == 2
MaxMaxRetries == 3
MaxBatchJobs == 7
MaxBatchBatchSize == 3
MaxLinks == 3
MaxMaxJobs == 2
MaxMentions == 2
MaxRanges == 2

(***************************************************************************)
(* Program constants.                                                      *)
(***************************************************************************)
DefaultBatchDelay == 2000
DefaultMaxRetries == 3
BackoffBase == 1000
MinScore == 0
MaxScore == 100

Thresholds == {0, 70}

Min(a, b) == IF a < b THEN a ELSE b

(***************************************************************************)
(* JSON values as JSON.parse produces them.  A missing property of an      *)
(* object reads as undefined.  A number is kept as its floor n and its     *)
(* fractional part f in tenths (0..9): 69.5 is n = 69, f = 5.              *)
(***************************************************************************)
JV(t, n, s, b, a) == [t |-> t, n |-> n, f |-> 0, s |-> s, b |-> b, a |-> a]
Undef == JV("undefined", 0, "", FALSE, <<>>)
Null == JV("null", 0, "", FALSE, <<>>)
Num(n) == JV("number", n, "", FALSE, <<>>)
Frac(n, f) == [Num(n) EXCEPT !.f = f]
Str(s) == JV("string", 0, s, FALSE, <<>>)
Bool(b) == JV("boolean", 0, "", b, <<>>)
Arr(a) == JV("array", 0, "", FALSE, a)

\* A parsed JSON document: an object with the five properties the engine
\* reads, or a JSON value that is not an object.
Obj(ms, su, mk, eg, re) ==
    [t |-> "object", matchScore |-> ms, suitable |-> su, missingSkills |-> mk,
     experienceGap |-> eg, reasoning |-> re]
NonObj(v) ==
    [t |-> v.t, matchScore |-> Undef, suitable |-> Undef, missingSkills |-> Undef,
     experienceGap |-> Undef, reasoning |-> Undef]

\* The text of a model response: plain or wrapped in a ``` fence, and
\* either the serialisation of a JSON document or text that is not JSON.
Content(form, syntax, doc) == [form |-> form, syntax |-> syntax, doc |-> doc]

(***************************************************************************)
(* ServiceError (types/index.ts) and the other errors the engine can see.  *)
(***************************************************************************)
ServiceError(service, code, retryable) ==
    [name |-> "ServiceError", service |-> service, code |-> code,
     retryable |-> retryable]
TypeError == [name |-> "TypeError", service |-> "", code |-> "", retryable |-> FALSE]
APIError == [name |-> "APIError", service |-> "", code |-> "", retryable |-> FALSE]
NoError == [name |-> "none", service |-> "", code |-> "", retryable |-> FALSE]

Ok(v) == [ok |-> TRUE, value |-> v, error |-> NoError]
NoData == [matchScore |-> 0, matchScoreTenths |-> 0, suitable |-> FALSE,
           missingSkills |-> <<>>, experienceGap |-> 0, reasoning |-> ""]
Throw(e) == [ok |-> FALSE, value |-> NoData, error |-> e]

(***************************************************************************)
(* parseAndValidateResponse.                                               *)
(***************************************************************************)
\* content.match(/```(?:json)?\s*(\{[\s\S]*\})\s*```/) followed by
\* JSON.parse: a fence is stripped only around text in braces; any other
\* fenced text is parsed with its fence and is not JSON.
JsonParses(content) ==
    /\ content.syntax = "json"
    /\ content.form = "fenced" => content.doc.t = "object"

\* v < k and v > k for a number v and an integer k
Below(v, k) == v.n < k
Above(v, k) == v.n > k \/ (v.n = k /\ v.f > 0)

\* a range check that has lost its upper limit
ScoreOutOfRangeNoUpper(v) == Below(v, MinScore)

\* parsed.matchScore < 0 || parsed.matchScore > 100
ScoreOutOfRange(v) == Below(v, MinScore) \/ Above(v, MaxScore)

parseAndValidateResponse(content) ==
    LET parsed == content.doc IN
    IF ~JsonParses(content)
      THEN Throw(ServiceError("ai-matching", "INVALID_JSON", TRUE))
    ELSE IF parsed.t = "null"
      THEN Throw(TypeError)
    ELSE IF \/ parsed.matchScore.t # "number"
            \/ ScoreOutOfRange(parsed.matchScore)
      THEN Throw(ServiceError("ai-matching", "INVALID_MATCH_SCORE", TRUE))
    ELSE IF parsed.suitable.t # "boolean"
      THEN Throw(ServiceError("ai-matching", "INVALID_SUITABLE", TRUE))
    ELSE IF parsed.missingSkills.t # "array"
      THEN Throw(ServiceError("ai-matching", "INVALID_MISSING_SKILLS", TRUE))
    ELSE IF parsed.experienceGap.t # "number"
      THEN Throw(ServiceError("ai-matching", "INVALID_EXPERIENCE_GAP", TRUE))
    ELSE IF parsed.reasoning.t # "string" \/ parsed.reasoning.s = ""
      THEN Throw(ServiceError("ai-matching", "INVALID_REASONING", TRUE))
    ELSE Ok([matchScore |-> parsed.matchScore.n,
             matchScoreTenths |-> parsed.matchScore.f,
             suitable |-> parsed.suitable.b,
             missingSkills |-> parsed.missingSkills.a,
             experienceGap |-> parsed.experienceGap.n,
             reasoning |-> parsed.reasoning.s])

(***************************************************************************)
(* The reply of the language-model client to one chat completion: the call *)
(* throws, or it resolves with an empty body (null, undefined or ""), or   *)
(* it resolves with text.                                                  *)
(***************************************************************************)
NoContent == Content("plain", "text", NonObj(Undef))
ReplyThrow == [kind |-> "throw", content |-> NoContent]
ReplyEmpty == [kind |-> "empty", content |-> NoContent]
ReplyText(c) == [kind |-> "text", content |-> c]

\* The input jobs: job k of the list.  Ids are unique within a job set.
Job(k) ==
    [jobId |-> "job-" \o ToString(k),
     jobTitle |-> "title-" \o ToString(k),
     location |-> "city-" \o ToString(k),
     requiredExperience |-> 4 + k,
     applyUrl |-> "https://jobs.example/apply/" \o ToString(k)]

\* A MatchResult.  Its matchScore is a JavaScript number: the field
\* matchScore holds the floor and matchScoreTenths the fractional part.
MatchResult(job, ms, su, mk, eg, re) ==
    [jobId |-> job.jobId,
     jobTitle |-> job.jobTitle,
     location |-> job.location,
     requiredExperience |-> job.requiredExperience,
     matchScore |-> ms,
     matchScoreTenths |-> 0,
     suitable |-> su,
     missingSkills |-> mk,
     experienceGap |-> eg,
     reasoning |-> re,
     applyUrl |-> job.applyUrl]

NoJob == [jobId |-> "", jobTitle |-> "", location |-> "",
          requiredExperience |-> 0, applyUrl |-> ""]
NoResult == MatchResult(NoJob, 0, FALSE, <<>>, 0, "")

WithTenths(r, f) == [r EXCEPT !.matchScoreTenths = f]

\* the matchScore of a result or of validated match data, in tenths
ScoreTenths(r) == 10 * r.matchScore + r.matchScoreTenths

\* a scoring call whose result is dropped and reported as a failure
ResolvedAsFailure(r) == [ok |-> FALSE, value |-> NoResult, error |-> APIError]

Resolved(r) == [ok |-> TRUE, value |-> r, error |-> NoError]
Rejected(e) == [ok |-> FALSE, value |-> NoResult, error |-> e]

(***************************************************************************)
(* performMatch: one scoring call, from the reply of the model to the      *)
(* MatchResult or the error thrown.                                        *)
(***************************************************************************)
\* suitable taken from the model's answer instead of recomputed
SuitableFromModel(matchData, thr) == matchData.suitable

Suitable(matchData, thr) == matchData.matchScore >= thr

\* The profile argument of matchJobs: a candidate with two years.
Profile == [name |-> "candidate", yearsOfExperience |-> 2, skills |-> <<"js">>]

\* an experience gap computed from the job and the profile
ResultGapFromYears(job, matchData) ==
    job.requiredExperience - Profile.yearsOfExperience

\* experienceGap: matchData.experienceGap
ResultGap(job, matchData) == matchData.experienceGap

\* a scoring call that hands an empty body to the validator
performMatchUnguarded(job, reply, thr) ==
    IF reply.kind = "throw" THEN Rejected(APIError)
    ELSE LET m == parseAndValidateResponse(reply.content) IN
         IF ~m.ok THEN Rejected(m.error)
         ELSE Resolved(WithTenths(MatchResult(job,
                                              m.value.matchScore,
                                              Suitable(m.value, thr),
                                              m.value.missingSkills,
                                              ResultGap(job, m.value),
                                              m.value.reasoning),
                                  m.value.matchScoreTenths))

performMatch(job, reply, thr) ==
    IF reply.kind = "throw" THEN Rejected(APIError)
    ELSE IF reply.kind = "empty"
      THEN Rejected(ServiceError("ai-matching", "EMPTY_RESPONSE", TRUE))
    ELSE LET m == parseAndValidateResponse(reply.content) IN
         IF ~m.ok THEN Rejected(m.error)
         ELSE Resolved(WithTenths(MatchResult(job,
                                              m.value.matchScore,
                                              Suitable(m.value, thr),
                                              m.value.missingSkills,
                                              ResultGap(job, m.value),
                                              m.value.reasoning),
                                  m.value.matchScoreTenths))

FailedReasoning == "Analysis failed after multiple attempts. Please try again."

\* a degraded result that reports the job's required experience as the gap
DegradedResultWithGap(job) ==
    MatchResult(job, 0, FALSE, <<>>, job.requiredExperience, FailedReasoning)

\* The result matchSingleJob returns when every attempt has failed.
DegradedResult(job) == MatchResult(job, 0, FALSE, <<>>, 0, FailedReasoning)

\* a catch clause that handles ServiceError only and rethrows the rest
CaughtServiceErrorOnly(error) == error.name = "ServiceError"

\* a catch clause that rethrows the errors that are not marked retryable
CaughtRetryableOnly(error) == error.retryable

\* catch (error) in matchSingleJob: the clause has no filter.
Caught(error) == TRUE

\* a backoff that does not grow with the attempt number
BackoffDelayFlat(att) == BackoffBase

\* this.delay(1000 * attempt)
BackoffDelay(att) == BackoffBase * att

\* if (attempt < this.config.maxRetries): a backoff and a further attempt
\* follow the failed attempt att.
RetryFollows(att, retries) == att < retries

(***************************************************************************)
(* results.sort((a, b) => b.matchScore - a.matchScore): Array.prototype    *)
(* .sort is stable (ES2019, Node 18+), so it is the insertion of every     *)
(* element, in order, behind the elements that do not compare after it.    *)
(***************************************************************************)
\* an insertion that puts an element before its equals (unstable sort)
RECURSIVE InsertUnstable(_, _)
InsertUnstable(x, s) ==
    IF s = <<>> THEN <<x>>
    ELSE IF ScoreTenths(Head(s)) - ScoreTenths(x) <= 0
      THEN <<x>> \o s
      ELSE <<Head(s)>> \o InsertUnstable(x, Tail(s))

RECURSIVE InsertSorted(_, _)
InsertSorted(x, s) ==
    IF s = <<>> THEN <<x>>
    ELSE IF ScoreTenths(Head(s)) - ScoreTenths(x) < 0
      THEN <<x>> \o s
      ELSE <<Head(s)>> \o InsertSorted(x, Tail(s))

RECURSIVE SortByScore(_)
SortByScore(s) ==
    IF s = <<>> THEN <<>>
    ELSE InsertSorted(s[Len(s)], SortByScore(SubSeq(s, 1, Len(s) - 1)))

(***************************************************************************)
(* What the language model may answer.  The engine cannot constrain it.    *)
(***************************************************************************)
GoodDoc(sc, su) == Obj(Num(sc), Bool(su), Arr(<<"sql">>), Num(3), Str("fit"))

GoodContents ==
    {Content("plain", "json", GoodDoc(40, TRUE)),
     Content("plain", "json", GoodDoc(70, FALSE))}

NotJson == Content("plain", "text", NonObj(Undef))
JsonNull == Content("plain", "json", NonObj(Null))
ScoreTooHigh ==
    Content("plain", "json", Obj(Num(101), Bool(TRUE), Arr(<<>>), Num(0), Str("fit")))
SuitableNotBoolean ==
    Content("plain", "json", Obj(Num(40), Str("yes"), Arr(<<>>), Num(0), Str("fit")))
ReasoningEmpty ==
    Content("plain", "json", Obj(Num(40), Bool(TRUE), Arr(<<>>), Num(0), Str("")))

\* One response of each kind the validator refuses: not JSON, JSON that is
\* not an object, a score out of range, a wrongly typed field, an empty
\* reasoning.
BadContents == {NotJson, JsonNull, ScoreTooHigh, SuitableNotBoolean, ReasoningEmpty}

AnyReplies ==
    {ReplyThrow, ReplyEmpty} \cup {ReplyText(c) : c \in GoodContents \cup BadContents}

\* A model that scores every job but the first of the list at the first
\* call, and answers the calls for the first job in any way.
TerseReplies == {ReplyText(c) : c \in GoodContents}

\* A model that answers one job with well-typed documents of many scores,
\* whole or fractional, in and out of range, with either suitable flag and
\* several experience gaps, or with an empty body.
FrankScores == {Num(0), Num(40), Frac(69, 5), Num(100), Frac(100, 5), Num(101)}
FrankGaps == {Num(-2), Num(0), Num(3)}
FrankReplies ==
    {ReplyEmpty} \cup
    {ReplyText(Content("plain", "json",
                       Obj(sc, Bool(su), Arr(<<"sql">>), eg, Str("fit")))) :
        sc \in FrankScores, su \in BOOLEAN, eg \in FrankGaps}

Replies(m, j) ==
    IF m = "frank" THEN FrankReplies
    ELSE IF m = "terse" /\ j > 1 THEN TerseReplies
    ELSE AnyReplies

(***************************************************************************)
(* State of one invocation of matchJobs.  lastError of matchSingleJob is   *)
(* only ever logged and is not part of the state.                          *)
(***************************************************************************)
VARIABLES
    model,        \* which answers the language model gives (any, terse, frank)
    jobs,         \* the jobs argument
    threshold,    \* the threshold argument
    batchSize,    \* this.config.batchSize
    maxRetries,   \* this.config.maxRetries
    batchDelay,   \* this.config.batchDelay
    pc,           \* position of matchJobs: loop, await, delay, returned, threw
    i,            \* loop variable of matchJobs
    results,      \* the results array
    returned,     \* the value matchJobs resolved with
    st,           \* per job: position of its matchSingleJob invocation
    attempt,      \* per job: loop variable of matchSingleJob
    inbox,        \* per job: the reply its chat completion settled with
    settled,      \* per job: the value its promise resolved with
    calls,        \* per job: chat completions requested so far
    backoffs,     \* per job: the backoff delays awaited so far, in ms
    batchSizes,   \* sizes of the batches started so far
    batchDelays,  \* the inter-batch delays awaited so far, in ms
    content,      \* the argument of a call of parseAndValidateResponse
    validated     \* what that call returned or threw

(***************************************************************************)
(* State of one invocation of scrapeCareerPage (scrapingService.ts).       *)
(***************************************************************************)
VARIABLES
    spc,          \* position: idle, launch, navigate, links, details, delay,
                  \* finally, returned, threw
    maxJobs,      \* the maxJobs argument
    browser,      \* the browser local: "undefined", "open" or "closed"
    closes,       \* calls of browser.close() so far
    jobLinks,     \* number of links extractJobLinks returned (links 1..jobLinks)
    linkIdx,      \* loop variable i of the details loop
    jobListings,  \* the jobListings array: the links that gave a posting
    requestDelays,\* the links after which the inter-request delay was awaited
    caught,       \* the error the catch block caught (NoThrow when none)
    pending,      \* the completion of the try/catch that the finally block holds
    scraped       \* what the invocation returned or threw to its caller

(***************************************************************************)
(* The record of one analysis session in the session store.                *)
(***************************************************************************)
VARIABLES
    status,         \* none, processing, completed, failed
    operation,      \* progress.operation: fetching, extracting, matching, completed
    currentJob,     \* progress.currentJob
    totalJobs,      \* progress.totalJobs
    sessionResults, \* results
    sessionError    \* error ("" when absent)

(***************************************************************************)
(* The inputs of a session as they are checked before the pipeline starts: *)
(* one call of parseResume and one call of a numeric validator.            *)
(***************************************************************************)
VARIABLES
    pdf,            \* what pdf(fileBuffer) did: resolved with a text, or threw
    parsedResume,   \* what parseResume returned or threw
    field,          \* the validator called: "maxJobs", "threshold" or "none"
    value,          \* the value handed to the validator
    verdict         \* what the validator did: returned, or threw

inputVars == <<pdf, parsedResume, field, value, verdict>>

scraperVars == <<spc, maxJobs, browser, closes, jobLinks, linkIdx, jobListings,
                 requestDelays, caught, pending, scraped>>

sessionVars == <<status, operation, currentJob, totalJobs, sessionResults,
                 sessionError>>

vars == <<model, jobs, threshold, batchSize, maxRetries, batchDelay, pc, i,
          results, returned, st, attempt, inbox, settled, calls, backoffs,
          batchSizes, batchDelays, content, validated, scraperVars, sessionVars,
          inputVars>>

\* what no step of a matchJobs invocation changes
config == <<model, jobs, threshold, batchSize, maxRetries, batchDelay, content,
            validated, scraperVars, sessionVars, inputVars>>

N == Len(jobs)
JobIdx == 1..N

\* a slice that takes one job more than batchSize
BatchOneMore == {k \in JobIdx : i < k /\ k <= i + batchSize + 1}

\* jobs.slice(i, i + batchSize), as indexes into jobs (from 1)
Batch == {k \in JobIdx : i < k /\ k <= i + batchSize}

NoReply == [kind |-> "none", content |-> NoContent]

NotValidated == [ok |-> FALSE, value |-> NoData, error |-> NoError]

NoCaught ==
    [name |-> "none", service |-> "", code |-> "", retryable |-> FALSE,
     message |-> "", includes |-> {}]

NoOutcome == [kind |-> "none", value |-> <<>>, error |-> NoError, message |-> ""]

\* The text of a document as the patterns of extractYearsOfExperience see
\* it: the numbers of its direct mentions ("5 years of experience") and
\* its date ranges ("2015 - 2018", "2020 - present"), each in the order of
\* the matches.  form tells what data.text is: undefined, the empty
\* string, white space only, or words.  An end of 0 is "present" or
\* "current".
Text(form, mentions, ranges) ==
    [form |-> form, mentions |-> mentions, ranges |-> ranges]

NoPdf == [kind |-> "none", text |-> Text("undefined", <<>>, <<>>), error |-> NoError]

NotParsed == [kind |-> "none", yearsOfExperience |-> 0, error |-> NoError]

NoVerdict == [kind |-> "none", name |-> "", field |-> "", code |-> ""]

\* scrapeCareerPage is not invoked.
ScraperIdle ==
    /\ spc = "idle"
    /\ maxJobs = 0
    /\ browser = "undefined"
    /\ closes = 0
    /\ jobLinks = 0
    /\ linkIdx = 0
    /\ jobListings = <<>>
    /\ requestDelays = <<>>
    /\ caught = NoCaught
    /\ pending = NoOutcome
    /\ scraped = NoOutcome

\* No session exists.
NoSession ==
    /\ status = "none"
    /\ operation = "none"
    /\ currentJob = 0
    /\ totalJobs = 0
    /\ sessionResults = <<>>
    /\ sessionError = ""

\* Neither parseResume nor a validator is called.
NoInputs ==
    /\ pdf = NoPdf
    /\ parsedResume = NotParsed
    /\ field = "none"
    /\ value = Undef
    /\ verdict = NoVerdict

InitRun(ns, bs, rs, ms, ts) ==
    /\ ScraperIdle
    /\ NoSession
    /\ NoInputs
    /\ model \in ms
    /\ \E n \in ns : jobs = [k \in 1..n |-> Job(k)]
    /\ threshold \in ts
    /\ batchSize \in bs
    /\ maxRetries \in rs
    /\ batchDelay = DefaultBatchDelay
    /\ pc = "loop"
    /\ i = 0
    /\ results = <<>>
    /\ returned = <<>>
    /\ st = [k \in JobIdx |-> "pending"]
    /\ attempt = [k \in JobIdx |-> 0]
    /\ inbox = [k \in JobIdx |-> NoReply]
    /\ settled = [k \in JobIdx |-> NoResult]
    /\ calls = [k \in JobIdx |-> 0]
    /\ backoffs = [k \in JobIdx |-> <<>>]
    /\ batchSizes = <<>>
    /\ batchDelays = <<>>

Init ==
    /\ InitRun(0..MaxJobs, 1..MaxBatchSize, 0..MaxMaxRetries, {"any"}, Thresholds)
    /\ content = NoContent
    /\ validated = NotValidated

\* a retry loop that runs one attempt too many
AttemptAllowedOneMore(att, retries) == att <= retries + 1

\* for (let attempt = 1; attempt <= this.config.maxRetries; ...)
AttemptAllowed(att, retries) == att <= retries

\* a loop that runs its body once more when i has reached the end
LoopContinuesAtEnd(idx, n) == idx <= n

\* for (...; i < jobs.length; ...)
LoopContinues(idx, n) == idx < n

\* The logs batchSizes and batchDelays keep their first MaxHistory entries:
\* enough for every run whose batches are not empty.
MaxHistory == MaxBatchJobs + 2
Record(history, x) == IF Len(history) < MaxHistory THEN Append(history, x) ELSE history

(***************************************************************************)
(* matchJobs, one loop iteration: slice the batch and call matchSingleJob  *)
(* for each of its jobs.  Each invocation runs to its first await: the     *)
(* chat completion of attempt 1, or, with maxRetries < 1, straight to the  *)
(* degraded result.                                                        *)
(***************************************************************************)
StartBatch ==
    /\ pc = "loop"
    /\ LoopContinues(i, N)
    /\ pc' = "await"
    /\ batchSizes' = Record(batchSizes, Cardinality(Batch))
    /\ IF AttemptAllowed(1, maxRetries)
         THEN /\ st' = [k \in JobIdx |-> IF k \in Batch THEN "calling" ELSE st[k]]
              /\ attempt' = [k \in JobIdx |-> IF k \in Batch THEN 1 ELSE attempt[k]]
              /\ calls' = [k \in JobIdx |-> IF k \in Batch THEN 1 ELSE calls[k]]
              /\ UNCHANGED settled
         ELSE /\ st' = [k \in JobIdx |-> IF k \in Batch THEN "resolved" ELSE st[k]]
              /\ settled' = [k \in JobIdx |->
                               IF k \in Batch THEN DegradedResult(jobs[k])
                                              ELSE settled[k]]
              /\ UNCHANGED <<attempt, calls>>
    /\ UNCHANGED <<config, i, results, returned, inbox, backoffs, batchDelays>>

\* The chat completion of job j settles.
ModelReplies(j, reply) ==
    /\ st[j] = "calling"
    /\ st' = [st EXCEPT ![j] = "replied"]
    /\ inbox' = [inbox EXCEPT ![j] = reply]
    /\ UNCHANGED <<config, pc, i, results, returned, attempt, settled, calls,
                   backoffs, batchSizes, batchDelays>>

(***************************************************************************)
(* matchSingleJob of job j resumes with the outcome of performMatch:       *)
(* return the result, or catch the error and either wait for the backoff   *)
(* or leave the loop with the degraded result.  The locals of an           *)
(* invocation that has returned are gone (attempt reads 0).                *)
(***************************************************************************)
Resume(j) ==
    /\ st[j] = "replied"
    /\ inbox' = [inbox EXCEPT ![j] = NoReply]
    /\ LET r == performMatch(jobs[j], inbox[j], threshold) IN
       IF r.ok
         THEN /\ st' = [st EXCEPT ![j] = "resolved"]
              /\ settled' = [settled EXCEPT ![j] = r.value]
              /\ attempt' = [attempt EXCEPT ![j] = 0]
              /\ UNCHANGED <<backoffs, pc>>
       ELSE IF ~Caught(r.error)
         THEN /\ st' = [st EXCEPT ![j] = "rejected"]
              /\ pc' = IF pc = "await" THEN "threw" ELSE pc
              /\ attempt' = [attempt EXCEPT ![j] = 0]
              /\ UNCHANGED <<backoffs, settled>>
       ELSE IF RetryFollows(attempt[j], maxRetries)
         THEN /\ st' = [st EXCEPT ![j] = "backoff"]
              /\ backoffs' = [backoffs EXCEPT ![j] = Append(@, BackoffDelay(attempt[j]))]
              /\ UNCHANGED <<settled, attempt, pc>>
         ELSE /\ st' = [st EXCEPT ![j] = "resolved"]
              /\ settled' = [settled EXCEPT ![j] = DegradedResult(jobs[j])]
              /\ attempt' = [attempt EXCEPT ![j] = 0]
              /\ UNCHANGED <<backoffs, pc>>
    /\ UNCHANGED <<config, i, results, returned, calls, batchSizes, batchDelays>>

\* an attempt counter shared by the jobs of the invocation
NextAttemptShared(att, j) == [k \in DOMAIN att |-> att[k] + 1]

\* attempt++ of the retry loop of job j
NextAttempt(att, j) == [att EXCEPT ![j] = @ + 1]

\* The backoff delay of job j has elapsed: next iteration of its retry loop.
BackoffElapsed(j) ==
    /\ st[j] = "backoff"
    /\ IF AttemptAllowed(NextAttempt(attempt, j)[j], maxRetries)
         THEN /\ st' = [st EXCEPT ![j] = "calling"]
              /\ attempt' = NextAttempt(attempt, j)
              /\ calls' = [calls EXCEPT ![j] = @ + 1]
              /\ UNCHANGED settled
         ELSE /\ st' = [st EXCEPT ![j] = "resolved"]
              /\ settled' = [settled EXCEPT ![j] = DegradedResult(jobs[j])]
              /\ attempt' = [attempt EXCEPT ![j] = 0]
              /\ UNCHANGED calls
    /\ UNCHANGED <<config, pc, i, results, returned, inbox, backoffs,
                   batchSizes, batchDelays>>

\* a join that keeps only the results with a positive score
RECURSIVE BatchResultsScored(_, _)
BatchResultsScored(lo, hi) ==
    IF lo > hi THEN <<>>
    ELSE (IF settled[lo].matchScore > 0 THEN <<settled[lo]>> ELSE <<>>)
           \o BatchResultsScored(lo + 1, hi)

\* a join that pushes every result of the batch twice
RECURSIVE BatchResultsTwice(_, _)
BatchResultsTwice(lo, hi) ==
    IF lo > hi THEN <<>>
    ELSE <<settled[lo], settled[lo]>> \o BatchResultsTwice(lo + 1, hi)

\* The results of the current batch, in the order of its jobs.
RECURSIVE BatchResults(_, _)
BatchResults(lo, hi) ==
    IF lo > hi THEN <<>> ELSE <<settled[lo]>> \o BatchResults(lo + 1, hi)

\* a delay that also follows a final batch that is full
DelayFollowsFullBatch(idx, size, n) == idx + size <= n

\* if (i + this.config.batchSize < jobs.length)
DelayFollows(idx, size, n) == idx + size < n

(***************************************************************************)
(* Promise.all of the batch resolves: push its results, then wait for the  *)
(* inter-batch delay or go on with the loop.                               *)
(***************************************************************************)
JoinBatch ==
    /\ pc = "await"
    /\ \A k \in Batch : st[k] = "resolved"
    /\ results' = results \o BatchResults(i + 1, Min(i + batchSize, N))
    /\ IF DelayFollows(i, batchSize, N)
         THEN /\ pc' = "delay"
              /\ batchDelays' = Record(batchDelays, batchDelay)
              /\ UNCHANGED i
         ELSE /\ pc' = "loop"
              /\ i' = i + batchSize
              /\ UNCHANGED batchDelays
    /\ UNCHANGED <<config, returned, st, attempt, inbox, settled, calls,
                   backoffs, batchSizes>>

BatchDelayElapsed ==
    /\ pc = "delay"
    /\ pc' = "loop"
    /\ i' = i + batchSize
    /\ UNCHANGED <<config, results, returned, st, attempt, inbox, settled,
                   calls, backoffs, batchSizes, batchDelays>>

\* The loop is over: sort the results in place and return them.
Return ==
    /\ pc = "loop"
    /\ ~LoopContinues(i, N)
    /\ results' = SortByScore(results)
    /\ returned' = results'
    /\ pc' = "returned"
    /\ UNCHANGED <<config, i, st, attempt, inbox, settled, calls, backoffs,
                   batchSizes, batchDelays>>

Next ==
    \/ StartBatch
    \/ \E j \in JobIdx : \E reply \in Replies(model, j) : ModelReplies(j, reply)
    \/ \E j \in JobIdx : Resume(j)
    \/ \E j \in JobIdx : BackoffElapsed(j)
    \/ JoinBatch
    \/ BatchDelayElapsed
    \/ Return

Spec == Init /\ [][Next]_vars

(***************************************************************************)
(* The engine under any configuration the constructor accepts: the         *)
(* constructor merges the given fields over the defaults without a check,  *)
(* so batchSize and maxRetries may be 0.  Every chat completion and every  *)
(* delay completes, and the engine runs whenever it can: each step is      *)
(* taken if it stays possible.                                             *)
(***************************************************************************)
InitConfig ==
    /\ InitRun(0..MaxJobs, 0..MaxBatchSize, 0..MaxMaxRetries, {"any"}, {70})
    /\ content = NoContent
    /\ validated = NotValidated

SpecConfig == InitConfig /\ [][Next]_vars /\ WF_vars(Next)

(***************************************************************************)
(* The same engine with more jobs and larger batches, against the terse    *)
(* model and with the default maxRetries.                                  *)
(***************************************************************************)
InitBatch ==
    /\ InitRun(0..MaxBatchJobs, 1..MaxBatchBatchSize, {DefaultMaxRetries}, {"terse"},
               Thresholds)
    /\ content = NoContent
    /\ validated = NotValidated

SpecBatch == InitBatch /\ [][Next]_vars

(***************************************************************************)
(* The scoring of one job at a time: matchJobs for the candidate below, a  *)
(* job that requires five years and possibly a second one, in batches of   *)
(* one, with a model that answers with any score and any experience gap.   *)
(* The profile goes into the prompt only (generatePrompt): no field of the *)
(* result is computed from it.                                             *)
(***************************************************************************)
InitScoring ==
    /\ InitRun({1, 2}, {1}, 1..MaxMaxRetries, {"frank"}, Thresholds)
    /\ content = NoContent
    /\ validated = NotValidated

SpecScoring == InitScoring /\ [][Next]_vars

(***************************************************************************)
(* The response validator on its own: one call of                          *)
(* parseAndValidateResponse on any text the model can produce.             *)
(***************************************************************************)
ScoreValues ==
    {Undef, Null, Str("40"), Num(-1), Num(0), Num(40), Frac(69, 5), Num(100),
     Frac(100, 5), Num(101)}
SuitableValues == {Undef, Bool(TRUE), Bool(FALSE), Str("true")}
SkillsValues == {Undef, Arr(<<>>), Arr(<<"sql">>), Str("sql")}
GapValues == {Undef, Num(-2), Num(3), Str("3")}
ReasoningValues == {Undef, Str(""), Str("fit"), Num(1)}

Documents ==
    {Obj(ms, su, mk, eg, re) : ms \in ScoreValues, su \in SuitableValues,
                               mk \in SkillsValues, eg \in GapValues,
                               re \in ReasoningValues}
      \cup {NonObj(v) : v \in {Null, Num(40), Str("fit"), Bool(TRUE), Arr(<<>>)}}

Contents ==
    {Content(f, "json", d) : f \in {"plain", "fenced"}, d \in Documents}
      \cup {Content(f, "text", NonObj(Undef)) : f \in {"plain", "fenced"}}

InitValidate ==
    /\ InitRun({0}, {1}, {0}, {"any"}, {0})
    /\ content \in Contents
    /\ validated = NotValidated

Validate ==
    /\ validated = NotValidated
    /\ validated' = parseAndValidateResponse(content)
    /\ UNCHANGED <<model, jobs, threshold, batchSize, maxRetries, batchDelay, pc,
                   i, results, returned, st, attempt, inbox, settled, calls,
                   backoffs, batchSizes, batchDelays, content, scraperVars,
                   sessionVars, inputVars>>

NextValidate == Validate

SpecValidate == InitValidate /\ [][NextValidate]_vars

(***************************************************************************)
(* scrapeCareerPage (services/scrapingService.ts).  puppeteer is the       *)
(* environment: launch and the page set-up and navigation calls resolve or *)
(* throw; extractJobLinks returns the links it found (none when it failed  *)
(* inside) and extractJobDetails a posting or null.  browser.close() is    *)
(* taken to resolve.                                                       *)
(***************************************************************************)
\* The substrings the catch block looks for in error.message.
Patterns ==
    {"net::ERR_NAME_NOT_RESOLVED", "net::ERR_CONNECTION_REFUSED", "Timeout",
     "timeout", "blocked", "403"}

\* What a puppeteer call can throw: an Error, known by the patterns its
\* message includes, or a value that is not an Error.
Thrown(name, includes) ==
    [name |-> name, service |-> "", code |-> "", retryable |-> FALSE,
     message |-> "", includes |-> includes]
NoThrow == NoCaught
PuppeteerErrors ==
    {Thrown("Error", ps) : ps \in SUBSET Patterns} \cup {Thrown("value", {})}
PuppeteerOutcomes == {NoThrow} \cup PuppeteerErrors

\* new ServiceError(message, 'scraping', code, retryable)
ScrapingError(message, code, retryable) ==
    [name |-> "ServiceError", service |-> "scraping", code |-> code,
     retryable |-> retryable, message |-> message, includes |-> {}]

\* a failure for a page without links that carries the generic message
NoJobsFoundGeneric ==
    ScrapingError("Failed to scrape career page", "NO_JOBS_FOUND", FALSE)

NoJobsFound ==
    ScrapingError("No job listings found on the career page", "NO_JOBS_FOUND", FALSE)

\* an extraction failure that is not retryable
ExtractionFailedFinal ==
    ScrapingError("Failed to extract details from any job listings",
                  "EXTRACTION_FAILED", FALSE)

ExtractionFailed ==
    ScrapingError("Failed to extract details from any job listings",
                  "EXTRACTION_FAILED", TRUE)

\* errorMessage.includes(p); errorMessage is 'Unknown error' for a thrown
\* value that is not an Error.
Includes(error, p) == error.name = "Error" /\ p \in error.includes

\* a classification that tests for a blocked page first
ClassifyBlockedFirst(error) ==
    IF Includes(error, "blocked") \/ Includes(error, "403")
      THEN ScrapingError("Career page blocked the scraper. Try a different page.", "BLOCKED", FALSE)
    ELSE IF \/ Includes(error, "net::ERR_NAME_NOT_RESOLVED")
            \/ Includes(error, "net::ERR_CONNECTION_REFUSED")
      THEN ScrapingError("Unable to reach the career page. Please check the URL.",
                         "CONNECTION_FAILED", TRUE)
    ELSE IF Includes(error, "Timeout") \/ Includes(error, "timeout")
      THEN ScrapingError("Career page took too long to load. Please try again.",
                         "TIMEOUT", TRUE)
    ELSE ScrapingError("Failed to scrape career page", "SCRAPING_FAILED", TRUE)

\* The catch block for an error that is not a ServiceError.
Classify(error) ==
    IF \/ Includes(error, "net::ERR_NAME_NOT_RESOLVED")
       \/ Includes(error, "net::ERR_CONNECTION_REFUSED")
      THEN ScrapingError("Unable to reach the career page. Please check the URL.",
                         "CONNECTION_FAILED", TRUE)
    ELSE IF Includes(error, "Timeout") \/ Includes(error, "timeout")
      THEN ScrapingError("Career page took too long to load. Please try again.",
                         "TIMEOUT", TRUE)
    ELSE IF Includes(error, "blocked") \/ Includes(error, "403")
      THEN ScrapingError("Career page blocked the scraper. Try a different page.", "BLOCKED", FALSE)
    ELSE ScrapingError("Failed to scrape career page", "SCRAPING_FAILED", TRUE)

\* catch (error): a ServiceError is rethrown, any other error classified.
Catch(error) == IF error.name = "ServiceError" THEN error ELSE Classify(error)

Returns(listings) ==
    [kind |-> "return", value |-> listings, error |-> NoError, message |-> ""]
Throws(e) ==
    [kind |-> "throw", value |-> <<>>,
     error |-> ServiceError(e.service, e.code, e.retryable), message |-> e.message]

\* a cut that keeps one link more than maxJobs
LinksToProcessOneMore(links, limit) == Min(links, limit + 1)

\* jobLinks.slice(0, maxJobs), as the number of links kept
LinksToProcess(links, limit) == Min(links, limit)

\* The statements after the details loop: fail when nothing was
\* extracted, return the postings otherwise.
\* the error the catch block sees after the loop, if any
AfterLoopThrows(listings) == IF Len(listings) = 0 THEN ExtractionFailed ELSE NoThrow

AfterLoop(listings) ==
    IF Len(listings) = 0 THEN Throws(Catch(ExtractionFailed)) ELSE Returns(listings)

\* puppeteer.launch settles.  When it throws, browser is still undefined
\* and the finally block has nothing to await.
Launch(outcome) ==
    /\ spc = "launch"
    /\ IF outcome = NoThrow
         THEN /\ browser' = "open"
              /\ spc' = "navigate"
              /\ UNCHANGED scraped
         ELSE /\ scraped' = Throws(Catch(outcome))
              /\ spc' = "threw"
              /\ UNCHANGED browser
    /\ caught' = outcome
    /\ UNCHANGED <<maxJobs, closes, jobLinks, linkIdx, jobListings, requestDelays,
                   pending>>

\* newPage, setUserAgent, setViewport and goto settle: all resolved, or
\* one of them threw.
Navigate(outcome) ==
    /\ spc = "navigate"
    /\ IF outcome = NoThrow
         THEN spc' = "links" /\ UNCHANGED pending
         ELSE spc' = "finally" /\ pending' = Throws(Catch(outcome))
    /\ caught' = outcome
    /\ UNCHANGED <<maxJobs, browser, closes, jobLinks, linkIdx, jobListings,
                   requestDelays, scraped>>

\* extractJobLinks resolves with n links.
ExtractJobLinks(n) ==
    /\ spc = "links"
    /\ jobLinks' = n
    /\ IF n = 0
         THEN /\ spc' = "finally"
              /\ caught' = NoJobsFound
              /\ pending' = Throws(Catch(NoJobsFound))
         ELSE IF LinksToProcess(n, maxJobs) = 0
           THEN /\ spc' = "finally"
                /\ caught' = AfterLoopThrows(jobListings)
                /\ pending' = AfterLoop(jobListings)
           ELSE spc' = "details" /\ UNCHANGED <<caught, pending>>
    /\ UNCHANGED <<maxJobs, browser, closes, linkIdx, jobListings, requestDelays,
                   scraped>>

\* a delay that also follows the last link
RequestDelayFollowsLast(idx, n) == idx < n

\* if (i < linksToProcess.length - 1)
RequestDelayFollows(idx, n) == idx < n - 1

\* extractJobDetails of link linkIdx + 1 resolves with a posting or with
\* null, or throws into the catch of the loop body, which only logs; the
\* delay follows unless the link is the last one.
ExtractJobDetails(details) ==
    /\ spc = "details"
    /\ LET listings == IF details = "posting" THEN Append(jobListings, linkIdx + 1)
                                              ELSE jobListings IN
       /\ jobListings' = listings
       /\ IF RequestDelayFollows(linkIdx, LinksToProcess(jobLinks, maxJobs))
            THEN spc' = "delay" /\ UNCHANGED <<linkIdx, caught, pending>>
            ELSE /\ spc' = "finally"
                 /\ linkIdx' = linkIdx + 1
                 /\ caught' = AfterLoopThrows(listings)
                 /\ pending' = AfterLoop(listings)
    /\ UNCHANGED <<maxJobs, browser, closes, jobLinks, requestDelays, scraped>>

\* delay(finalConfig.delayBetweenRequests) has elapsed: next link.
RequestDelayElapsed ==
    /\ spc = "delay"
    /\ requestDelays' = Append(requestDelays, linkIdx + 1)
    /\ linkIdx' = linkIdx + 1
    /\ spc' = "details"
    /\ UNCHANGED <<maxJobs, browser, closes, jobLinks, jobListings, caught, pending,
                   scraped>>

\* a finally block that never finds a browser to close
LaunchedNever(b) == FALSE

\* if (browser): the local holds the browser puppeteer.launch resolved with
Launched(b) == b # "undefined"

\* finally { if (browser) await browser.close() }, then the completion of
\* the try/catch reaches the caller.
CloseBrowser ==
    /\ spc = "finally"
    /\ IF Launched(browser)
         THEN browser' = "closed" /\ closes' = closes + 1
         ELSE UNCHANGED <<browser, closes>>
    /\ scraped' = pending
    /\ spc' = IF pending.kind = "return" THEN "returned" ELSE "threw"
    /\ UNCHANGED <<maxJobs, jobLinks, linkIdx, jobListings, requestDelays, caught,
                   pending>>

Scrape ==
    \/ \E outcome \in PuppeteerOutcomes : Launch(outcome)
    \/ \E outcome \in PuppeteerOutcomes : Navigate(outcome)
    \/ \E n \in 0..MaxLinks : ExtractJobLinks(n)
    \/ \E details \in {"posting", "null", "throws"} : ExtractJobDetails(details)
    \/ RequestDelayElapsed
    \/ CloseBrowser

engineVars == <<model, jobs, threshold, batchSize, maxRetries, batchDelay, pc, i,
                results, returned, st, attempt, inbox, settled, calls, backoffs,
                batchSizes, batchDelays, content, validated>>

\* No matchJobs invocation exists.
EngineIdle ==
    /\ model = "terse"
    /\ jobs = <<>>
    /\ threshold = 0
    /\ batchSize = 1
    /\ maxRetries = 0
    /\ batchDelay = DefaultBatchDelay
    /\ pc = "idle"
    /\ i = 0
    /\ results = <<>>
    /\ returned = <<>>
    /\ st = <<>>
    /\ attempt = <<>>
    /\ inbox = <<>>
    /\ settled = <<>>
    /\ calls = <<>>
    /\ backoffs = <<>>
    /\ batchSizes = <<>>
    /\ batchDelays = <<>>
    /\ content = NoContent
    /\ validated = NotValidated

\* scrapeCareerPage(url, maxJobs) is called.
InvokeScraper(limits) ==
    /\ spc = "launch"
    /\ maxJobs \in limits
    /\ browser = "undefined"
    /\ closes = 0
    /\ jobLinks = 0
    /\ linkIdx = 0
    /\ jobListings = <<>>
    /\ requestDelays = <<>>
    /\ caught = NoCaught
    /\ pending = NoOutcome
    /\ scraped = NoOutcome

InitScrape ==
    EngineIdle /\ NoSession /\ NoInputs /\ InvokeScraper(1..MaxMaxJobs)

NextScrape == Scrape /\ UNCHANGED <<engineVars, sessionVars, inputVars>>

SpecScrape == InitScrape /\ [][NextScrape]_vars

(***************************************************************************)
(* One analysis session: the orchestrator drives the record of the session *)
(* store through fetching, extracting and matching, calling                *)
(* scrapeCareerPage, the document parser and matchJobs.  The orchestrator  *)
(* and the store are modelled from sections 4.1, 4.4 and 5 of the          *)
(* specification; the scraper and the engine are the machines above.  The  *)
(* document parser is its outcome only: a profile, or a failure.           *)
(* estimatedTimeRemaining is advisory and left out.                        *)
(***************************************************************************)
\* startAnalysis: the record is created with status processing and
\* progress {0, 0, fetching}, and the pipeline starts with the scraper.
InitSession ==
    /\ EngineIdle
    /\ NoInputs
    /\ InvokeScraper(1..MaxMaxJobs)
    /\ status = "processing"
    /\ operation = "fetching"
    /\ currentJob = 0
    /\ totalJobs = 0
    /\ sessionResults = <<>>
    /\ sessionError = ""

\* a store that accepts updates of a record whatever its status
SessionOpenAlways == TRUE

\* The record may still be mutated: its status has not left processing.
SessionOpen == status = "processing"

\* The jobs whose completion the orchestrator has seen: those of the
\* batches that have joined.
JobsDone == Len(results)

NoPostingsMessage == "No job postings found"
NoProfileMessage == "No usable text could be extracted from the document"

\* The scraper has settled.  With postings the session enters extracting
\* and totalJobs is known; a failure, or no posting, fails the session
\* with the message of the failure.  The invocation of the scraper is over.
ScraperDone ==
    /\ SessionOpen
    /\ operation = "fetching"
    /\ spc \in {"returned", "threw"}
    /\ IF spc = "returned" /\ Len(scraped.value) > 0
         THEN /\ operation' = "extracting"
              /\ totalJobs' = Len(scraped.value)
              /\ UNCHANGED <<status, sessionError>>
         ELSE /\ status' = "failed"
              /\ sessionError' = IF spc = "threw" THEN scraped.message
                                                 ELSE NoPostingsMessage
              /\ UNCHANGED <<operation, totalJobs>>
    /\ spc' = "idle"
    /\ maxJobs' = 0
    /\ browser' = "undefined"
    /\ closes' = 0
    /\ jobLinks' = 0
    /\ linkIdx' = 0
    /\ jobListings' = <<>>
    /\ requestDelays' = <<>>
    /\ caught' = NoCaught
    /\ pending' = NoOutcome
    /\ scraped' = NoOutcome
    /\ UNCHANGED <<currentJob, sessionResults, engineVars, inputVars>>

\* matchJobs(profile, jobs, threshold) is called on a new engine for n
\* postings.
StartEngine(n, bs, ts) ==
    /\ model' = "terse"
    /\ jobs' = [k \in 1..n |-> Job(k)]
    /\ threshold' \in ts
    /\ batchSize' \in bs
    /\ maxRetries' = DefaultMaxRetries
    /\ batchDelay' = DefaultBatchDelay
    /\ pc' = "loop"
    /\ i' = 0
    /\ results' = <<>>
    /\ returned' = <<>>
    /\ st' = [k \in 1..n |-> "pending"]
    /\ attempt' = [k \in 1..n |-> 0]
    /\ inbox' = [k \in 1..n |-> NoReply]
    /\ settled' = [k \in 1..n |-> NoResult]
    /\ calls' = [k \in 1..n |-> 0]
    /\ backoffs' = [k \in 1..n |-> <<>>]
    /\ batchSizes' = <<>>
    /\ batchDelays' = <<>>
    /\ UNCHANGED <<content, validated>>

\* The document parser has settled: with a profile the session enters
\* matching and the engine is started on the postings; without usable text
\* the session fails.
ParserDone(usable) ==
    /\ SessionOpen
    /\ operation = "extracting"
    /\ IF usable
         THEN /\ operation' = "matching"
              /\ StartEngine(totalJobs, 1..MaxBatchSize, {70})
              /\ UNCHANGED <<status, sessionError>>
         ELSE /\ status' = "failed"
              /\ sessionError' = NoProfileMessage
              /\ UNCHANGED <<operation, engineVars>>
    /\ UNCHANGED <<currentJob, totalJobs, sessionResults, scraperVars,
                   inputVars>>

\* The progress update after a completed job: one increment of currentJob.
ProgressUpdate ==
    /\ SessionOpen
    /\ operation = "matching"
    /\ currentJob < JobsDone
    /\ currentJob' = currentJob + 1
    /\ UNCHANGED <<status, operation, totalJobs, sessionResults, sessionError,
                   engineVars, scraperVars, inputVars>>

\* matchJobs has returned and every progress update is applied: the
\* results are stored verbatim and the session is completed.
Complete ==
    /\ SessionOpen
    /\ operation = "matching"
    /\ pc = "returned"
    /\ currentJob = JobsDone
    /\ status' = "completed"
    /\ operation' = "completed"
    /\ sessionResults' = returned
    /\ UNCHANGED <<currentJob, totalJobs, sessionError, engineVars, scraperVars,
                   inputVars>>

NextSession ==
    \/ Scrape /\ UNCHANGED <<engineVars, sessionVars, inputVars>>
    \/ ScraperDone
    \/ \E usable \in BOOLEAN : ParserDone(usable)
    \/ Next
    \/ ProgressUpdate
    \/ Complete

SpecSession == InitSession /\ [][NextSession]_vars

(***************************************************************************)
(* parseResume (services/resumeParser.ts).  pdf-parse is the environment:  *)
(* pdf(fileBuffer) resolves with the text of the document or throws.  Of   *)
(* the profile only yearsOfExperience is kept; the skills, technologies    *)
(* and roles are lists of words found in the text.                         *)
(***************************************************************************)
MaxYears == 50
EarliestStart == 1970

\* new Date().getFullYear()
CurrentYear == 2026

Resolves(text) == [kind |-> "resolved", text |-> text, error |-> NoError]
PdfThrows(e) == [kind |-> "threw", text |-> Text("undefined", <<>>, <<>>), error |-> e]

Error == [name |-> "Error", service |-> "", code |-> "", retryable |-> FALSE]
NotAnError == [name |-> "string", service |-> "", code |-> "", retryable |-> FALSE]

\* a check of the text that does not trim it
IsBlankNoTrim(text) == text.form \in {"undefined", "empty"}

\* !rawText || rawText.trim().length === 0
IsBlank(text) == text.form \in {"undefined", "empty", "blank"}

\* The loop over the direct mentions: the largest one that is at most 50.
RECURSIVE DirectMentions(_, _)
DirectMentions(mentions, maxYears) ==
    IF mentions = <<>>
      THEN maxYears
      ELSE LET years == Head(mentions)
           IN  DirectMentions(Tail(mentions),
                              IF years > maxYears /\ years <= MaxYears
                                THEN years
                                ELSE maxYears)

\* The loop over the date ranges: the sum of endYear - startYear over the
\* ranges that start in 1970..currentYear.
RECURSIVE DateRanges(_, _)
DateRanges(ranges, maxYears) ==
    IF ranges = <<>>
      THEN maxYears
      ELSE LET startYear == Head(ranges).start
               endYear == IF Head(ranges).end = 0 THEN CurrentYear
                                                  ELSE Head(ranges).end
               duration == endYear - startYear
           IN  DateRanges(Tail(ranges),
                          IF startYear >= EarliestStart /\ startYear <= CurrentYear
                            THEN maxYears + duration
                            ELSE maxYears)

extractYearsOfExperience(text) ==
    LET direct == DirectMentions(text.mentions, 0)
        maxYears == IF direct = 0 THEN DateRanges(text.ranges, direct) ELSE direct
    IN  Min(maxYears, MaxYears)

ParsedResume(text) ==
    [kind |-> "returned", yearsOfExperience |-> extractYearsOfExperience(text),
     error |-> NoError]

ParseThrows(e) == [kind |-> "threw", yearsOfExperience |-> 0, error |-> e]

\* the catch block: a ServiceError is thrown on, anything else is wrapped
Rethrow(error) ==
    IF error.name = "ServiceError"
      THEN error
      ELSE ServiceError("resume-parser", "PARSING_FAILED", FALSE)

parseResume(data) ==
    IF data.kind = "threw"
      THEN ParseThrows(Rethrow(data.error))
      ELSE IF IsBlank(data.text)
             THEN ParseThrows(Rethrow(ServiceError("resume-parser", "EMPTY_PDF",
                                                   FALSE)))
             ELSE ParsedResume(data.text)

MentionValues == {0, 3, 51}
StartYears == {1969, 2015, 2020, 2030}
EndYears == {0, 2015, 2100}

SeqsUpTo(S, n) == UNION {[1..k -> S] : k \in 0..n}

Texts ==
    {Text("words", ms, rs) :
        ms \in SeqsUpTo(MentionValues, MaxMentions),
        rs \in SeqsUpTo([start : StartYears, end : EndYears], MaxRanges)}
      \cup {Text(f, <<>>, <<>>) : f \in {"undefined", "empty", "blank"}}

PdfOutcomes == {Resolves(t) : t \in Texts} \cup {PdfThrows(Error), PdfThrows(NotAnError)}

InitResume ==
    /\ EngineIdle
    /\ ScraperIdle
    /\ NoSession
    /\ pdf \in PdfOutcomes
    /\ parsedResume = NotParsed
    /\ field = "none"
    /\ value = Undef
    /\ verdict = NoVerdict

ParseResume ==
    /\ pdf # NoPdf
    /\ parsedResume = NotParsed
    /\ parsedResume' = parseResume(pdf)
    /\ UNCHANGED <<engineVars, scraperVars, sessionVars, pdf, field, value, verdict>>

NextResume == ParseResume

SpecResume == InitResume /\ [][NextResume]_vars

(***************************************************************************)
(* validateMaxJobs and validateThreshold (utils/validation.ts): one call   *)
(* on any value a request can carry.  Number(value) is the conversion of   *)
(* the language: null, false, the empty or blank string and the empty      *)
(* array convert to 0, true to 1, a string to the number it spells or to   *)
(* NaN, an array of one element as that element, an object to NaN.         *)
(***************************************************************************)
JSNumber(kind, n, f) == [kind |-> kind, n |-> n, f |-> f]

\* The number a string converts to, for the strings of this model.
StringToNumber(str) ==
    CASE str \in {"", " ", "0"} -> JSNumber("finite", 0, 0)
      [] str = "5" -> JSNumber("finite", 5, 0)
      [] str = "50" -> JSNumber("finite", 50, 0)
      [] str \in {"100", "1e2"} -> JSNumber("finite", 100, 0)
      [] str = "101" -> JSNumber("finite", 101, 0)
      [] str = "-1" -> JSNumber("finite", -1, 0)
      [] str = "7.5" -> JSNumber("finite", 7, 5)
      [] str = "Infinity" -> JSNumber("Infinity", 0, 0)
      [] OTHER -> JSNumber("NaN", 0, 0)

\* Number(value)
ToNumber(v) ==
    CASE v.t = "number" -> JSNumber("finite", v.n, v.f)
      [] v.t = "null" -> JSNumber("finite", 0, 0)
      [] v.t = "boolean" -> JSNumber("finite", IF v.b THEN 1 ELSE 0, 0)
      [] v.t = "string" -> StringToNumber(v.s)
      [] v.t = "array" -> IF v.a = <<>> THEN StringToNumber("")
                          ELSE IF Len(v.a) = 1 THEN StringToNumber(v.a[1])
                          ELSE JSNumber("NaN", 0, 0)
      [] OTHER -> JSNumber("NaN", 0, 0)

ValidationError(fieldName, code) ==
    [kind |-> "threw", name |-> "ValidationError", field |-> fieldName,
     code |-> code]

\* the validator returns (nothing)
Accepted == [kind |-> "returned", name |-> "", field |-> "", code |-> ""]

validateNumericRange(v, fieldName, min, max) ==
    LET numValue == ToNumber(v)
    IN  IF numValue.kind = "NaN"
          THEN ValidationError(fieldName, "INVALID_NUMBER")
        ELSE IF ~(numValue.kind = "finite" /\ numValue.f = 0)
          THEN ValidationError(fieldName, "NOT_INTEGER")
        ELSE IF numValue.n < min \/ numValue.n > max
          THEN ValidationError(fieldName, "OUT_OF_RANGE")
        ELSE Accepted

validateMaxJobs(v) == validateNumericRange(v, "maxJobs", 1, 100)

validateThreshold(v) == validateNumericRange(v, "threshold", 0, 100)

ParamValues ==
    {Undef, Null, Bool(TRUE), Bool(FALSE), JV("object", 0, "", FALSE, <<>>)}
      \cup {Num(n) : n \in {-1, 0, 1, 2, 50, 99, 100, 101}}
      \cup {Frac(0, 5), Frac(7, 5), Frac(100, 5)}
      \cup {Str(str) : str \in {"", " ", "0", "5", "50", "100", "101", "-1", "7.5",
                                "1e2", "Infinity", "abc"}}
      \cup {Arr(<<>>), Arr(<<"5">>), Arr(<<"5", "50">>)}

InitParams ==
    /\ EngineIdle
    /\ ScraperIdle
    /\ NoSession
    /\ pdf = NoPdf
    /\ parsedResume = NotParsed
    /\ field \in {"maxJobs", "threshold"}
    /\ value \in ParamValues
    /\ verdict = NoVerdict

ValidateParam ==
    /\ field # "none"
    /\ verdict = NoVerdict
    /\ verdict' = IF field = "maxJobs" THEN validateMaxJobs(value)
                                       ELSE validateThreshold(value)
    /\ UNCHANGED <<engineVars, scraperVars, sessionVars, pdf, parsedResume, field,
                   value>>

NextParams == ValidateParam

SpecParams == InitParams /\ [][NextParams]_vars

(***************************************************************************)
(* Properties.                                                             *)
(***************************************************************************)
Returned == 1..Len(returned)

\* The position in the input of the job a result belongs to.
PosOf(r) == CHOOSE k \in JobIdx : jobs[k].jobId = r.jobId

IsDegraded(r) == \E k \in JobIdx : r = DegradedResult(jobs[k])

Ceil(n, b) == (n + b - 1) \div b

\* C1 as stated: for every threshold and every result matchJobs returns,
\* suitable equals (matchScore >= threshold).
C1_SuitableIffScoreAtLeastThreshold ==
    pc = "returned" =>
        \A k \in Returned :
            returned[k].suitable = (returned[k].matchScore >= threshold)

\* C1 amended: every returned result built from an accepted model response
\* has suitable equal to (matchScore >= threshold), whatever the model's own
\* suitable field says; a degraded result has suitable = FALSE.
C1_SuitableRecomputedUnlessDegraded ==
    pc = "returned" =>
        \A k \in Returned :
            \/ IsDegraded(returned[k]) /\ ~returned[k].suitable
            \/ /\ ~IsDegraded(returned[k])
               /\ returned[k].suitable = (returned[k].matchScore >= threshold)

\* The model answered matchScore 40 with suitable true, threshold 70 made
\* the result unsuitable, and another result is suitable.
C1_Witness ==
    /\ pc = "returned"
    /\ threshold = 70
    /\ \E k \in Returned : returned[k].matchScore = 40 /\ ~returned[k].suitable
    /\ \E k \in Returned : returned[k].matchScore = 70 /\ returned[k].suitable

\* C2: matchJobs returns exactly one result per input job: as many results
\* as jobs, and every job's id on exactly one of them.
C2_OneResultPerJob ==
    pc = "returned" =>
        /\ Len(returned) = N
        /\ \A j \in JobIdx :
              Cardinality({k \in Returned : returned[k].jobId = jobs[j].jobId}) = 1

\* A run with several jobs, some scored and some degraded.
C2_Witness ==
    /\ pc = "returned"
    /\ N >= 2
    /\ \E k \in Returned : IsDegraded(returned[k])
    /\ \E k \in Returned : ~IsDegraded(returned[k])

\* C3: the returned sequence is sorted by matchScore descending, and results
\* with equal matchScore keep the relative order of their jobs in the input.
C3_SortedDescendingStable ==
    pc = "returned" =>
        \A a, b \in Returned :
            a < b =>
              /\ ScoreTenths(returned[a]) >= ScoreTenths(returned[b])
              /\ ScoreTenths(returned[a]) = ScoreTenths(returned[b])
                    => PosOf(returned[a]) < PosOf(returned[b])

\* Two results with equal scores from different batches, and a result that
\* the sort moved in front of the result of an earlier job.
C3_Witness ==
    /\ pc = "returned"
    /\ N >= 5
    /\ \E a, b \in Returned :
          /\ a < b
          /\ returned[a].matchScore = returned[b].matchScore
          /\ (PosOf(returned[a]) - 1) \div batchSize
                # (PosOf(returned[b]) - 1) \div batchSize
    /\ \E a, b \in Returned : a < b /\ PosOf(returned[a]) > PosOf(returned[b])

\* C4: no job ever gets more than maxRetries scoring calls, and a job gets
\* the degraded result only when maxRetries calls were made and the last of
\* them failed too.
C4_AtMostMaxRetriesAttempts ==
    [][\A j \in JobIdx :
          /\ calls'[j] <= maxRetries'
          /\ (st[j] # "resolved" /\ st'[j] = "resolved"
                /\ settled'[j] = DegradedResult(jobs[j]))
               => /\ calls[j] = maxRetries
                  /\ st[j] = "replied"
                       => ~performMatch(jobs[j], inbox[j], threshold).ok]_vars

C4_Witness ==
    \E j \in JobIdx :
        /\ st[j] = "resolved"
        /\ settled[j] = DegradedResult(jobs[j])
        /\ calls[j] = 3
        /\ maxRetries = 3

\* C5: when the last allowed attempt of a job fails, its promise resolves
\* with the degraded result (score 0, not suitable, no missing skills, gap
\* 0, the fixed reasoning, the job's own id, title, location and apply URL),
\* matchJobs does not throw, and the returned sequence holds every job.
C5_ExhaustionGivesDegradedResult ==
    [][/\ pc' # "threw"
       /\ \A j \in JobIdx :
            (/\ st[j] = "replied"
             /\ st'[j] # "replied"
             /\ ~performMatch(jobs[j], inbox[j], threshold).ok
             /\ attempt[j] >= maxRetries)
              => /\ st'[j] = "resolved"
                 /\ settled'[j] =
                      [jobId |-> jobs[j].jobId,
                       jobTitle |-> jobs[j].jobTitle,
                       location |-> jobs[j].location,
                       requiredExperience |-> jobs[j].requiredExperience,
                       matchScore |-> 0,
                       matchScoreTenths |-> 0,
                       suitable |-> FALSE,
                       missingSkills |-> <<>>,
                       experienceGap |-> 0,
                       reasoning |-> FailedReasoning,
                       applyUrl |-> jobs[j].applyUrl]
       /\ pc' = "returned" =>
             \A j \in JobIdx : \E k \in 1..Len(returned') : returned'[k] = settled[j]]_vars

\* One job exhausted its three attempts, the others were scored.
C5_Witness ==
    /\ pc = "returned"
    /\ N >= 2
    /\ \E j \in JobIdx :
          /\ settled[j] = DegradedResult(jobs[j])
          /\ calls[j] = 3
          /\ \A k \in JobIdx \ {j} : settled[k].matchScore > 0

\* The batches that have been joined, and whether the last batch has been.
JoinedBatches == IF pc = "await" THEN Len(batchSizes) - 1 ELSE Len(batchSizes)
LastBatchJoined == pc = "returned" \/ (pc = "loop" /\ ~(i < N))

\* C6: N >= 1 jobs with batch size B >= 1 are processed in ceil(N/B)
\* consecutive batches in input order, each of size B except possibly the
\* last, and the inter-batch delay is awaited once after every batch but the
\* last: ceil(N/B) - 1 times in all.
C6_BatchesAndDelays ==
    (N >= 1 /\ batchSize >= 1) =>
        /\ \A k \in 1..Len(batchSizes) :
              batchSizes[k] = Min(batchSize, N - (k - 1) * batchSize)
        /\ pc \in {"await", "delay"} => i = (Len(batchSizes) - 1) * batchSize
        /\ pc # "returned" =>
              /\ Len(results) = Min(JoinedBatches * batchSize, N)
              /\ \A k \in 1..Len(results) : results[k] = settled[k]
        /\ Len(batchDelays) = IF LastBatchJoined THEN JoinedBatches - 1
                                                  ELSE JoinedBatches
        /\ \A k \in 1..Len(batchDelays) : batchDelays[k] = batchDelay
        /\ pc = "returned" =>
              /\ Len(batchSizes) = Ceil(N, batchSize)
              /\ Len(batchDelays) = Ceil(N, batchSize) - 1

\* 7 jobs with batch size 3: batches of 3, 3 and 1 and two delays.
C6_Witness ==
    /\ pc = "returned"
    /\ N = 7
    /\ batchSize = 3
    /\ batchSizes = <<3, 3, 1>>
    /\ Len(batchDelays) = 2

\* Everything the engine holds about job k.
JobState(k) == <<st[k], attempt[k], inbox[k], settled[k], calls[k], backoffs[k]>>

\* C7: all jobs of a batch are started together; a step of one job (a
\* reply, a failure, a backoff, exhaustion) changes nothing of any other
\* job and does not end the batch; the batch is joined only when each of its
\* jobs has resolved with a real or degraded result.
C7_SiblingsIndependent ==
    [][/\ pc' = "await" =>
             \A k \in Batch' : st'[k] # "pending" /\ (maxRetries >= 1 => calls'[k] >= 1)
       /\ \A j \in JobIdx :
            (pc = "await" /\ JobState(j)' # JobState(j))
              => /\ pc' = "await"
                 /\ \A k \in JobIdx \ {j} : JobState(k)' = JobState(k)
       /\ (pc = "await" /\ pc' # "await")
            => \A k \in Batch : st[k] = "resolved" /\ settled[k] # NoResult]_vars

\* In one batch a job is degraded after three failed attempts while a
\* sibling was scored at its first attempt.
C7_Witness ==
    /\ pc = "await"
    /\ \E j, k \in Batch :
          /\ j # k
          /\ st[j] = "resolved" /\ settled[j] = DegradedResult(jobs[j]) /\ calls[j] = 3
          /\ st[k] = "resolved" /\ settled[k].matchScore > 0 /\ calls[k] = 1

BadReplies == {ReplyText(c) : c \in BadContents}

\* C8: an attempt that got a bad response fails without the error leaving
\* matchSingleJob: while attempts remain the job waits for its backoff and
\* then makes one more scoring call; after the last attempt its promise
\* resolves with the degraded result.  matchJobs never throws.
C8_BadResponseRetriedNotThrown ==
    [][/\ pc' # "threw"
       /\ \A j \in JobIdx :
            /\ st'[j] # "rejected"
            /\ (st[j] = "replied" /\ st'[j] # "replied" /\ inbox[j] \in BadReplies)
                 => IF attempt[j] < maxRetries
                      THEN st'[j] = "backoff" /\ settled'[j] = NoResult
                      ELSE st'[j] = "resolved"
                             /\ settled'[j] = DegradedResult(jobs[j])
            /\ (st[j] = "backoff" /\ st'[j] # "backoff")
                 => /\ st'[j] = "calling"
                    /\ calls'[j] = calls[j] + 1
                    /\ attempt'[j] = attempt[j] + 1]_vars

\* JSON null arrives as the answer to the third and last attempt of a job.
C8_Witness ==
    \E j \in JobIdx :
        /\ st[j] = "replied"
        /\ inbox[j] = ReplyText(JsonNull)
        /\ attempt[j] = 3
        /\ maxRetries = 3
        /\ Len(backoffs[j]) = 2

\* The error code the field checks give a parsed response, in their order;
\* "" when every check passes.
ExpectedCode(c) ==
    IF ~JsonParses(c) THEN "INVALID_JSON"
    ELSE IF ~(/\ c.doc.matchScore.t = "number"
              /\ 10 * c.doc.matchScore.n + c.doc.matchScore.f \in 0..1000)
      THEN "INVALID_MATCH_SCORE"
    ELSE IF c.doc.suitable.t # "boolean" THEN "INVALID_SUITABLE"
    ELSE IF c.doc.missingSkills.t # "array" THEN "INVALID_MISSING_SKILLS"
    ELSE IF c.doc.experienceGap.t # "number" THEN "INVALID_EXPERIENCE_GAP"
    ELSE IF ~(c.doc.reasoning.t = "string" /\ c.doc.reasoning.s # "")
      THEN "INVALID_REASONING"
    ELSE ""

\* C9: the validator accepts a response exactly when matchScore is a number
\* in [0,100], suitable a boolean, missingSkills an array, experienceGap a
\* number and reasoning a non-empty string; otherwise it throws a
\* ServiceError with retryable = true whose code is that of the first
\* violated check (INVALID_JSON when the text does not parse).
C9_ValidatorAcceptsIffWellFormed ==
    validated # NotValidated =>
        IF ExpectedCode(content) = ""
          THEN validated.ok
          ELSE /\ ~validated.ok
               /\ validated.error.name = "ServiceError"
               /\ validated.error.retryable
               /\ validated.error.code = ExpectedCode(content)

\* C10: the backoffs a job has awaited are 1000 ms after failed attempt 1,
\* 2000 ms after failed attempt 2, and so on; one after every failed
\* attempt but the last allowed one, none after a successful attempt.
C10_BackoffIsBaseTimesAttempt ==
    \A j \in JobIdx :
        /\ \A a \in 1..Len(backoffs[j]) : backoffs[j][a] = 1000 * a
        /\ Len(backoffs[j]) < maxRetries \/ Len(backoffs[j]) = 0
        /\ st[j] \in {"calling", "replied", "resolved"}
              => Len(backoffs[j]) = (IF calls[j] = 0 THEN 0 ELSE calls[j] - 1)
        /\ st[j] = "backoff" => Len(backoffs[j]) = calls[j]

\* A job has failed twice and waits 2000 ms before its third attempt, and
\* a job that was scored at its second attempt waited 1000 ms only.
C10_Witness ==
    /\ \E j \in JobIdx : st[j] = "backoff" /\ backoffs[j] = <<1000, 2000>>
    /\ \E j \in JobIdx :
          /\ st[j] = "resolved"
          /\ settled[j].matchScore > 0
          /\ backoffs[j] = <<1000>>

\* C11: a scoring call whose response has no body fails with the
\* ServiceError of 'ai-matching' with code EMPTY_RESPONSE and retryable =
\* true, which is not what the validator throws for that body; the failure
\* uses up one attempt: the job backs off if an attempt is left and takes
\* the degraded result otherwise, without a further call.
C11_EmptyBodyIsRetryableFailure ==
    [][\A j \in JobIdx :
          (st[j] = "replied" /\ inbox[j] = ReplyEmpty /\ st'[j] # "replied")
            => /\ performMatch(jobs[j], inbox[j], threshold)
                    = Rejected(ServiceError("ai-matching", "EMPTY_RESPONSE", TRUE))
               /\ parseAndValidateResponse(inbox[j].content).error
                    # performMatch(jobs[j], inbox[j], threshold).error
               /\ calls'[j] = calls[j]
               /\ IF attempt[j] < maxRetries
                    THEN /\ st'[j] = "backoff"
                         /\ attempt'[j] = attempt[j]
                         /\ Len(backoffs'[j]) = Len(backoffs[j]) + 1
                    ELSE /\ st'[j] = "resolved"
                         /\ settled'[j] = DegradedResult(jobs[j])]_vars

\* An empty body came back at a second attempt, after a first attempt that
\* failed, and is about to be handled.
C11_Witness ==
    \E j \in JobIdx :
        /\ st[j] = "replied"
        /\ inbox[j] = ReplyEmpty
        /\ attempt[j] = 2
        /\ maxRetries >= 2

\* C12 as stated: for the candidate with 2 years, the job requiring 5 and
\* threshold 70, a result with the matchScore 40 the model reported has
\* suitable = false and experienceGap = 3.
C12_Score40GivesUnsuitableGapThree ==
    \A j \in JobIdx :
        (/\ Profile.yearsOfExperience = 2
         /\ jobs[j].requiredExperience = 5
         /\ threshold = 70
         /\ st[j] = "resolved"
         /\ ScoreTenths(settled[j]) = 400)
          => ~settled[j].suitable /\ settled[j].experienceGap = 3

\* C12 amended: for that candidate, job and threshold, the result built
\* from an accepted response that reports matchScore 40 has suitable =
\* false, and its experienceGap is the experienceGap of the response (3
\* when the model reports 3); the engine does not compute it from the 5
\* years required and the 2 years of the candidate.
C12_Score40GivesUnsuitableAndReportedGap ==
    [][\A j \in JobIdx :
          (/\ Profile.yearsOfExperience = 2
           /\ jobs[j].requiredExperience = 5
           /\ threshold = 70
           /\ st[j] = "replied"
           /\ inbox[j].kind = "text"
           /\ parseAndValidateResponse(inbox[j].content).ok
           /\ inbox[j].content.doc.matchScore = Num(40)
           /\ st'[j] # "replied")
            => /\ st'[j] = "resolved"
               /\ settled'[j].matchScore = 40
               /\ ~settled'[j].suitable
               /\ settled'[j].experienceGap = inbox[j].content.doc.experienceGap.n]_vars

\* The model reported matchScore 40, suitable true and no experience gap
\* for the job requiring 5 years; the result is unsuitable with gap 0.
C12_Witness ==
    /\ pc = "returned"
    /\ threshold = 70
    /\ Len(returned) = 1
    /\ jobs[1].requiredExperience = 5
    /\ returned[1].matchScore = 40
    /\ ~returned[1].suitable
    /\ returned[1].experienceGap = 0
    /\ calls[1] = 1

\* C13 as stated: every result matchJobs returns has an integer matchScore
\* from 0 to 100 and a non-empty reasoning.
C13_ScoreIntegerInRangeReasoningNonEmpty ==
    pc = "returned" =>
        \A k \in Returned :
            /\ returned[k].matchScoreTenths = 0
            /\ returned[k].matchScore \in 0..100
            /\ returned[k].reasoning # ""

\* C13 amended: every result matchJobs returns, real or degraded, has a
\* matchScore that is a number from 0 to 100, whole or fractional, and a
\* non-empty reasoning.
C13_ScoreInRangeReasoningNonEmpty ==
    pc = "returned" =>
        \A k \in Returned :
            /\ returned[k].matchScoreTenths \in 0..9
            /\ ScoreTenths(returned[k]) \in 0..1000
            /\ returned[k].reasoning # ""

\* A first attempt failed and the response to the second, with matchScore
\* 69.5, was accepted and returned.
C13_Witness ==
    /\ pc = "returned"
    /\ Len(returned) = 1
    /\ ScoreTenths(returned[1]) = 695
    /\ calls[1] = 2

\* the stages of a session, as pairs of status and operation
Stage == <<status, operation>>

ForwardMoves ==
    {<<<<"processing", "fetching">>, <<"processing", "extracting">>>>,
     <<<<"processing", "extracting">>, <<"processing", "matching">>>>,
     <<<<"processing", "matching">>, <<"completed", "completed">>>>,
     <<<<"processing", "fetching">>, <<"failed", "fetching">>>>,
     <<<<"processing", "extracting">>, <<"failed", "extracting">>>>,
     <<<<"processing", "matching">>, <<"failed", "matching">>>>}

\* C14: the status of a session only moves forward, fetching to extracting
\* to matching to completed, or from a processing stage to failed; results
\* are written at completion only and an error with the failure only; once
\* the status is completed or failed, status, progress, results and error
\* never change again.
C14_StatusForwardThenImmutable ==
    [][/\ Stage' # Stage => <<Stage, Stage'>> \in ForwardMoves
       /\ sessionResults' # sessionResults => status' = "completed"
       /\ sessionError' # sessionError => status' = "failed"
       /\ status \in {"completed", "failed"} => sessionVars' = sessionVars]_vars

\* A session went through every stage and is completed with two results.
C14_Witness ==
    /\ status = "completed"
    /\ operation = "completed"
    /\ totalJobs = 2
    /\ Len(sessionResults) = 2

\* C15: a completed session holds exactly totalJobs results, one for every
\* job, written when every job of every batch had its real or degraded
\* result; before completion the results are empty.
C15_CompletedHasTotalJobsResults ==
    /\ status = "completed" =>
          /\ Len(sessionResults) = totalJobs
          /\ totalJobs = N
          /\ pc = "returned"
          /\ \A j \in JobIdx :
                /\ st[j] = "resolved"
                /\ Cardinality({k \in 1..Len(sessionResults) :
                                   sessionResults[k].jobId = jobs[j].jobId}) = 1
    /\ status # "completed" => sessionResults = <<>>

\* A completed session of two jobs in two batches, one of them degraded.
C15_Witness ==
    /\ status = "completed"
    /\ totalJobs = 2
    /\ Len(batchSizes) = 2
    /\ \E k \in 1..Len(sessionResults) : IsDegraded(sessionResults[k])
    /\ \E k \in 1..Len(sessionResults) : ~IsDegraded(sessionResults[k])

ZeroPostings ==
    /\ spc = "threw"
    /\ scraped.error.code \in {"NO_JOBS_FOUND", "EXTRACTION_FAILED"}

MentionsNoPostings(message) ==
    message \in {"No job listings found on the career page",
                 "Failed to extract details from any job listings"}

\* C17: when the scraper yields zero postings the session goes from
\* processing/fetching to failed in one step, with the message of the
\* scraper's failure, which says that no listing was found or none could
\* be extracted, as its error; such a session never entered extracting or
\* matching, and no engine run and no scoring call exists for it.
C17_ZeroPostingsFailsSessionAtOnce ==
    [][/\ (ZeroPostings /\ sessionVars' # sessionVars) =>
             /\ Stage = <<"processing", "fetching">>
             /\ Stage' = <<"failed", "fetching">>
             /\ sessionError' = scraped.message
             /\ MentionsNoPostings(sessionError')
       /\ ZeroPostings => pc' = "idle"
       /\ (status' = "failed" /\ operation' = "fetching") =>
             /\ pc' = "idle"
             /\ calls' = <<>>
             /\ sessionResults' = <<>>]_vars

\* The page had no job link: the session has failed in fetching with the
\* scraper's message and no engine run exists.
C17_Witness ==
    /\ status = "failed"
    /\ operation = "fetching"
    /\ sessionError = "No job listings found on the career page"
    /\ pc = "idle"
    /\ calls = <<>>

\* C18: whenever scrapeCareerPage returns normally it returns at least one
\* and at most maxJobs postings, each of one of the first maxJobs links.
C18_ReturnsOneToMaxJobsPostings ==
    spc = "returned" =>
        /\ scraped.kind = "return"
        /\ Len(scraped.value) >= 1
        /\ Len(scraped.value) <= maxJobs
        /\ \A k \in 1..Len(scraped.value) : scraped.value[k] \in 1..maxJobs

\* More links were found than maxJobs allows and every link kept gave a
\* posting: exactly maxJobs postings are returned.
C18_Witness ==
    /\ spc = "returned"
    /\ jobLinks > maxJobs
    /\ maxJobs >= 2
    /\ Len(scraped.value) = maxJobs

\* The invocation ended with no posting: no link was found, or no link
\* kept gave a posting.
EndedWithNoPostings ==
    /\ spc = "threw"
    /\ browser = "closed"
    /\ caught.name = "ServiceError"

C21_YearsBetweenZeroAndFifty ==
    parsedResume.kind = "returned" =>
        /\ parsedResume.yearsOfExperience >= 0
        /\ parsedResume.yearsOfExperience <= MaxYears

(***************************************************************************)
(* C22.  parseResume fails on a document without text, and a failure that  *)
(* escapes it is a ServiceError of resume-parser that is not retryable:    *)
(* EMPTY_PDF as raised inside, PARSING_FAILED for any other error.         *)
(***************************************************************************)
C22_ParserFailuresAreFinalServiceErrors ==
    parsedResume # NotParsed =>
        /\ (pdf.kind = "resolved" /\ pdf.text.form # "words") =>
               /\ parsedResume.kind = "threw"
               /\ parsedResume.error =
                      ServiceError("resume-parser", "EMPTY_PDF", FALSE)
        /\ pdf.kind = "threw" =>
               /\ parsedResume.kind = "threw"
               /\ parsedResume.error =
                      ServiceError("resume-parser", "PARSING_FAILED", FALSE)
        /\ parsedResume.kind = "threw" =>
               /\ parsedResume.error.name = "ServiceError"
               /\ parsedResume.error.service = "resume-parser"
               /\ ~parsedResume.error.retryable
               /\ pdf.kind = "threw" \/ pdf.text.form # "words"

C22_Witness ==
    /\ pdf.kind = "resolved"
    /\ pdf.text.form = "blank"
    /\ parsedResume.kind = "threw"
    /\ parsedResume.error.code = "EMPTY_PDF"

\* The strings of the model that spell a number.
NumericText == {"0", "5", "50", "100", "101", "-1", "7.5", "1e2", "Infinity"}

\* The value is a number, or a string that spells one.
Numeric(v) == v.t = "number" \/ (v.t = "string" /\ v.s \in NumericText)

FieldMin == IF field = "maxJobs" THEN 1 ELSE 0

(***************************************************************************)
(* C23.  validateMaxJobs accepts only an integer in 1..100 and             *)
(* validateThreshold only an integer in 0..100; any other value raises a   *)
(* ValidationError that names the field, with code INVALID_NUMBER,         *)
(* NOT_INTEGER or OUT_OF_RANGE.  A string that spells a number is read as  *)
(* that number.                                                            *)
(***************************************************************************)
C23_AcceptsOnlyIntegersInRange ==
    verdict # NoVerdict =>
        LET inRange == /\ Numeric(value)
                       /\ ToNumber(value).kind = "finite"
                       /\ ToNumber(value).f = 0
                       /\ ToNumber(value).n >= FieldMin
                       /\ ToNumber(value).n <= 100
        IN  IF inRange
              THEN verdict = Accepted
              ELSE /\ verdict.kind = "threw"
                   /\ verdict.name = "ValidationError"
                   /\ verdict.field = field
                   /\ verdict.code \in
                          {"INVALID_NUMBER", "NOT_INTEGER", "OUT_OF_RANGE"}

\* The jobs whose chat completion is awaited.
InFlight == {k \in JobIdx : st[k] = "calling"}

\* The batch job k is sliced into, counted from 1.
BatchOf(k) == ((k - 1) \div batchSize) + 1

(***************************************************************************)
(* C24.  At most batchSize scoring calls are in flight at any moment, and  *)
(* an attempt for a job of batch k+1 starts only when every job of batch k *)
(* has finished all its attempts and backoffs and the delay between the    *)
(* two batches has elapsed.                                                *)
(***************************************************************************)
C24_BoundedParallelismBatchAfterBatch ==
    [][/\ Cardinality(InFlight) <= batchSize
       /\ Cardinality(InFlight') <= batchSize
       /\ \A k \in JobIdx :
             calls'[k] > calls[k] =>
                /\ \A h \in JobIdx :
                      BatchOf(h) < BatchOf(k) =>
                         /\ st[h] = "resolved"
                         /\ settled[h] # NoResult
                         /\ Len(results) >= h
                /\ Len(batchDelays) = BatchOf(k) - 1
                /\ pc # "delay"]_vars

C24_Witness ==
    /\ \E k \in JobIdx : BatchOf(k) = 2 /\ st[k] = "calling"
    /\ \E h \in JobIdx : BatchOf(h) = 1 /\ Len(backoffs[h]) > 0
    /\ batchSize > 1
    /\ Cardinality(InFlight) = batchSize
    /\ Len(batchDelays) = 1

\* The sequence 1, 2, ..., n.
UpTo(n) == [k \in 1..n |-> k]

(***************************************************************************)
(* C25.  In scrapeCareerPage a link whose details cannot be extracted is   *)
(* skipped and nothing else: the loop goes on, the postings returned are   *)
(* those of the links that succeeded, in link order, and the delay between *)
(* requests is awaited once after every processed link but the last,       *)
(* whether the link succeeded or not.                                      *)
(***************************************************************************)
C25_FailedLinkSkippedOnly ==
    [][/\ spc = "details" =>
             /\ linkIdx < LinksToProcess(jobLinks, maxJobs)
             /\ requestDelays = UpTo(linkIdx)
             /\ jobListings' \in {jobListings, Append(jobListings, linkIdx + 1)}
             /\ requestDelays' = requestDelays
             /\ IF linkIdx + 1 < LinksToProcess(jobLinks, maxJobs)
                  THEN spc' = "delay" /\ linkIdx' = linkIdx
                  ELSE spc' = "finally"
       /\ spc = "delay" =>
             /\ spc' = "details"
             /\ linkIdx' = linkIdx + 1
             /\ jobListings' = jobListings
             /\ requestDelays' = Append(requestDelays, linkIdx + 1)
       /\ (spc' = "returned" /\ spc # "returned") =>
             /\ scraped'.value = jobListings
             /\ \A k \in 1..Len(jobListings) :
                   /\ jobListings[k] \in 1..LinksToProcess(jobLinks, maxJobs)
                   /\ k > 1 => jobListings[k - 1] < jobListings[k]
             /\ requestDelays = UpTo(LinksToProcess(jobLinks, maxJobs) - 1)]_vars

C25_Witness ==
    /\ spc = "returned"
    /\ scraped.value = <<2>>
    /\ requestDelays = <<1>>

\* The scoring call of job j has thrown an error that is no ServiceError or
\* is not marked retryable.
ThrewUnretryable(j) ==
    LET r == performMatch(jobs[j], inbox[j], threshold)
    IN  /\ st[j] = "replied"
        /\ ~r.ok
        /\ r.error.name # "ServiceError" \/ ~r.error.retryable

(***************************************************************************)
(* C26.  matchSingleJob retries after any thrown error, whatever its type  *)
(* and its retryable flag: such a failure takes one attempt like any       *)
(* other, is followed by the backoff and a further attempt while attempts  *)
(* remain, by the degraded result otherwise, and never ends the run.       *)
(***************************************************************************)
C26_UnretryableErrorsAreRetried ==
    [][\A j \in JobIdx :
         /\ (ThrewUnretryable(j) /\ st'[j] # "replied") =>
               /\ pc' = pc
               /\ calls'[j] = calls[j]
               /\ calls[j] = attempt[j]
               /\ IF attempt[j] < maxRetries
                    THEN /\ st'[j] = "backoff"
                         /\ backoffs'[j] = Append(backoffs[j], BackoffDelay(attempt[j]))
                         /\ attempt'[j] = attempt[j]
                    ELSE /\ st'[j] = "resolved"
                         /\ settled'[j] = DegradedResult(jobs[j])
         /\ (st[j] = "backoff" /\ st'[j] # "backoff") =>
               /\ st'[j] = "calling"
               /\ attempt'[j] = attempt[j] + 1
               /\ calls'[j] = calls[j] + 1]_vars

C26_Witness ==
    \E j \in JobIdx :
        /\ ThrewUnretryable(j)
        /\ inbox[j] = ReplyThrow
        /\ attempt[j] = 2
        /\ maxRetries = 3
        /\ backoffs[j] = <<BackoffBase>>

\* The reply to job j is a response the validator accepts.
GoodReply(j) ==
    /\ st[j] = "replied"
    /\ inbox[j].kind = "text"
    /\ parseAndValidateResponse(inbox[j].content).ok

(***************************************************************************)
(* C27.  The attempts of a job stop at the first success: when attempt k   *)
(* succeeds, the job has made exactly k scoring calls and waited exactly   *)
(* k - 1 backoffs, its result is built from the k-th response, and nothing *)
(* of the job changes afterwards.                                          *)
(***************************************************************************)
C27_AttemptsStopAtFirstSuccess ==
    [][\A j \in JobIdx :
         /\ (GoodReply(j) /\ st'[j] # "replied") =>
               LET m == parseAndValidateResponse(inbox[j].content).value
               IN  /\ st'[j] = "resolved"
                   /\ settled'[j].jobId = jobs[j].jobId
                   /\ settled'[j].matchScore = m.matchScore
                   /\ settled'[j].matchScoreTenths = m.matchScoreTenths
                   /\ settled'[j].reasoning = m.reasoning
                   /\ calls'[j] = attempt[j]
                   /\ Len(backoffs'[j]) = attempt[j] - 1
         /\ st[j] = "resolved" =>
               /\ st'[j] = "resolved"
               /\ calls'[j] = calls[j]
               /\ backoffs'[j] = backoffs[j]
               /\ settled'[j] = settled[j]]_vars

C27_Witness ==
    \E j \in JobIdx :
        /\ st[j] = "resolved"
        /\ settled[j].reasoning # FailedReasoning
        /\ calls[j] = 3
        /\ Len(backoffs[j]) = 2

(***************************************************************************)
(* C28.  When every scoring call and every delay completes, matchJobs      *)
(* terminates for every job list, failure pattern and configuration, and   *)
(* a job gets a degraded result only after at least one scoring attempt.   *)
(***************************************************************************)
C28_TerminatesAfterAttempts ==
    /\ <>(pc = "returned")
    /\ [](\A j \in JobIdx : settled[j] = DegradedResult(jobs[j]) => calls[j] >= 1)

(***************************************************************************)
(* C29.  Once scrapeCareerPage has launched a browser, the browser is      *)
(* closed exactly once on every way out (return, NO_JOBS_FOUND,            *)
(* EXTRACTION_FAILED, an error of navigation or extraction), and before    *)
(* the result or the error reaches the caller.                             *)
(***************************************************************************)
C29_BrowserClosedOnceBeforeExit ==
    [][/\ closes' <= 1
       /\ browser = "closed" => (browser' = "closed" /\ closes' = closes)
       /\ browser = "open" => scraped = NoOutcome
       /\ (scraped = NoOutcome /\ scraped' # NoOutcome) =>
             IF browser = "undefined"
               THEN browser' = "undefined" /\ closes' = 0 /\ spc = "launch"
               ELSE browser = "open" /\ browser' = "closed" /\ closes' = 1
       /\ spc' \in {"returned", "threw"} =>
             /\ scraped' # NoOutcome
             /\ browser' # "open"
             /\ closes' = IF browser' = "closed" THEN 1 ELSE 0]_vars

C29_Witness ==
    /\ spc = "threw"
    /\ scraped.error.code = "EXTRACTION_FAILED"
    /\ browser = "closed"
    /\ closes = 1

(***************************************************************************)
(* C30.  matchJobs on an empty job list returns the empty sequence: no     *)
(* batch is sliced, no scoring call is made and no delay is awaited.       *)
(***************************************************************************)
C30_EmptyListReturnsEmpty ==
    N = 0 =>
        /\ pc \in {"loop", "returned"}
        /\ results = <<>>
        /\ returned = <<>>
        /\ batchSizes = <<>>
        /\ batchDelays = <<>>
        /\ DOMAIN calls = {}
        /\ DOMAIN backoffs = {}

C30_Witness ==
    /\ N = 0
    /\ pc = "returned"
    /\ returned = <<>>

====
